---- MODULE Spec2Model ----
(***************************************************************************)
(* LinkedIn Machine: a Slack bot (Bolt app) with a message listener that   *)
(* records shared LinkedIn post URLs, and two slash commands that post     *)
(* generated content.  Two JSON files (posts.json, prompts.json) are the   *)
(* only persistent state; every handler is an async function whose awaits  *)
(* are the points where other handlers may run.                            *)
(*                                                                         *)
(* Strings are modelled as tuples of tokens.  A message text is a tuple    *)
(* over TextAlphabet:                                                      *)
(*    "U"  the characters  https://linkedin.com/posts/                     *)
(*    "W"  the characters  https://www.linkedin.com/posts/                 *)
(*    "x"  one non-whitespace character that starts no such prefix         *)
(*    "s"  one whitespace character                                        *)
(* Every other string value is a tuple of strings as well, so that all     *)
(* field values are comparable.                                            *)
(***************************************************************************)
EXTENDS Integers, Sequences, FiniteSets, TLC

\* ------------------------------------------------------------------ bounds
MaxTextLen == 5        \* longest message text, in tokens
MaxClock == 1          \* the clock reads 0..MaxClock
MaxCmdLen == 2         \* longest slash-command text, in tokens
MaxCycles == 3         \* load-append-save cycles of the store specification
MaxRequestLen == 3     \* longest keyword-bearing request, in tokens
MaxPosts == 11         \* longest posts log the context is built from
MaxPrompts == 6        \* longest prompts log the context is built from

\* --------------------------------------------------------------- constants
Tasks == {"t1", "t2"}                 \* concurrently running handler tasks
POSTS_FILE == "posts"
PROMPTS_FILE == "prompts"
FileNames == {POSTS_FILE, PROMPTS_FILE}

Undefined == <<"undefined">>          \* the JavaScript value undefined
Null == <<>>                          \* a null result (no match)
SP == "s"
Prefixes == {"U", "W"}
TextAlphabet == {"U", "W", "x", SP}

RECURSIVE SeqsUpTo(_, _)
SeqsUpTo(S, n) ==
  IF n = 0 THEN {<<>>}
  ELSE LET shorter == SeqsUpTo(S, n - 1)
       IN  shorter \cup {Append(q, c) : q \in {r \in shorter : Len(r) = n - 1}, c \in S}

\* every message text up to MaxTextLen tokens, and a message without text
MessageTexts == SeqsUpTo(TextAlphabet, MaxTextLen) \cup {Undefined}
\* message.user is absent on bot messages
MessageUsers == {<<"U1">>, Undefined}
\* the texts the concurrent specification draws from: no text, one URL,
\* two URLs
SampleTexts == { Undefined, <<"U", "x">>, <<"U", "x", SP, "W", "x">> }

\* slash-command texts: "w" is a word character, "s" whitespace
CmdAlphabet == {"w", SP}
CommandTexts == SeqsUpTo(CmdAlphabet, MaxCmdLen)

\* the sample command texts of the concurrent specification
SampleCommands == { <<SP>>, <<"w">> }

\* requests that bear the keywords the image heuristic looks for, in several
\* casings; "graphics" is a word that contains the keyword "graph"
RequestAlphabet ==
  {"iPhone", "android", "chart", "graphics", "DATA", "comparison", "w", SP}
KeywordRequests == SeqsUpTo(RequestAlphabet, MaxRequestLen)

\* the deployed revision of the script: "v1" generates inline in the command
\* handler, "v2" generates text in generateCustomContent, "v3" generates
\* text and an image in generateCustomContent
Variants == {"v1", "v2", "v3"}

\* ------------------------------------------------------------------- state
VARIABLES
  variant,   \* the revision that is running
  files,     \* file name -> content of the file on disk
  now,       \* the last value the system clock returned
  slackTs,   \* the number of messages the chat platform has accepted
  started,   \* the number of handler invocations so far
  pc,        \* task -> the await the task is suspended at
  inp,       \* task -> the event the handler was invoked with
  mem,       \* task -> the array the handler loaded and pushed to
  res,       \* task -> the handler's generation result and post result
  trace      \* task -> the external calls the invocation completed, in order

vars == <<variant, files, now, slackTs, started, pc, inp, mem, res, trace>>

\* ---------------------------------------------------------- file contents
Absent == [kind |-> "absent", data |-> <<>>]
Malformed == [kind |-> "malformed", data |-> <<>>]
JsonFile(text) == [kind |-> "json", data |-> text]

\* property read: a missing key reads as undefined
Get(obj, key) == IF key \in DOMAIN obj THEN obj[key] ELSE Undefined

\* variation: keys whose value is null are left out as well
StringifyObjectDropNull(obj) ==
  [key \in {k \in DOMAIN obj : obj[k] # Undefined /\ obj[k] # <<"null">>}
     |-> obj[key]]

\* JSON.stringify of one object: keys whose value is undefined are left out
StringifyObject(obj) ==
  [key \in {k \in DOMAIN obj : obj[k] # Undefined} |-> obj[key]]

\* JSON.stringify(data, null, 2) of an array of objects
JSONstringify(data) == [i \in 1..Len(data) |-> StringifyObject(data[i])]

\* JSON.parse of a text JSONstringify wrote: the objects in file order
JSONparse(text) == [i \in 1..Len(text) |-> text[i]]

\* variation: a rejected read is not noticed
loadDataStale(content, readOk) ==
  IF content.kind = "json" THEN JSONparse(content.data) ELSE <<>>

\* loadData: readFile then JSON.parse; any error gives the empty array.
\* readOk is FALSE when the read is rejected (the file cannot be read).
loadData(content, readOk) ==
  IF readOk /\ content.kind = "json" THEN JSONparse(content.data) ELSE <<>>

\* variation: the array is appended to the file (appendFile)
saveDataAppend(content, data, writeOk) ==
  IF writeOk THEN JsonFile(content.data \o JSONstringify(data)) ELSE content

\* saveData: writeFile of the stringified array; a rejected write is logged
\* and the file keeps its content.
saveData(content, data, writeOk) ==
  IF writeOk THEN JsonFile(JSONstringify(data)) ELSE content

\* --------------------------------------------------------- the URL pattern
\* /https:\/\/(www\.)?linkedin\.com\/posts\/[^\s]+/g

RECURSIVE RunEnd(_, _)
\* the index of the last token of the non-whitespace run that contains i
RunEnd(text, i) ==
  IF i < Len(text) /\ text[i + 1] # SP THEN RunEnd(text, i + 1) ELSE i

RECURSIVE MatchFromBare(_, _)
\* variation: the pattern with [^\s]* in place of [^\s]+
MatchFromBare(text, i) ==
  IF i > Len(text) THEN <<>>
  ELSE IF text[i] \in Prefixes
       THEN <<SubSeq(text, i, RunEnd(text, i))>>
               \o MatchFromBare(text, RunEnd(text, i) + 1)
       ELSE MatchFromBare(text, i + 1)

RECURSIVE MatchFrom(_, _)
\* the matches of the pattern at or after index i, left to right, each match
\* being a prefix followed by one or more non-whitespace characters (greedy)
MatchFrom(text, i) ==
  IF i > Len(text) THEN <<>>
  ELSE IF text[i] \in Prefixes /\ i < Len(text) /\ text[i + 1] # SP
       THEN <<SubSeq(text, i, RunEnd(text, i + 1))>>
               \o MatchFrom(text, RunEnd(text, i + 1) + 1)
       ELSE MatchFrom(text, i + 1)

\* message.text?.match(linkedinUrlRegex): undefined without text, null
\* without a match, otherwise the array of matched strings
linkedinUrlRegex(text) ==
  IF text = Undefined THEN Null ELSE MatchFrom(text, 1)

\* ------------------------------------------------------------------ events
Event(op, ok, arg) == [op |-> op, ok |-> ok, arg |-> arg]
Iso(stamp) == <<"iso", ToString(stamp)>>      \* new Date().toISOString()

NoInput == [kind |-> "none", text |-> Undefined]
NoResult == [content |-> Undefined, ts |-> Undefined]
Finished(t) == pc[t] \in {"idle", "done", "crashed"}
CHANNEL == <<"C1">>

\* the non-decreasing clock readings of n successive reads starting at lo
Readings(lo, n) ==
  {r \in [1..n -> lo..MaxClock] : \A i \in 1..n : \A j \in i..n : r[i] <= r[j]}

\* ------------------------------------------------------ the message listener
SharedPost(url, message, stamp) ==
  [url |-> url, userId |-> message.user, timestamp |-> Iso(stamp),
   channel |-> message.channel, messageText |-> message.text]

\* urls.forEach(url => posts.push({...})): one record per url, in order
PushPosts(posts, urls, message, stamps) ==
  posts \o [i \in 1..Len(urls) |-> SharedPost(urls[i], message, stamps[i])]

\* variation: the reply names the last url
ReplyUrlLast(urls) == urls[Len(urls)]

\* the url the reply names: urls[0]
ReplyUrl(urls) == urls[1]

\* app.message: a message arrives; without a match the handler returns
MessageEvent(t, text, user) ==
  /\ Finished(t)
  /\ started' = started + 1
  /\ res' = [res EXCEPT ![t] = NoResult]
  /\ inp' = [inp EXCEPT ![t] = [kind |-> "message", text |-> text,
                                user |-> user, channel |-> CHANNEL,
                                ts |-> <<"msg", t>>]]
  /\ trace' = [trace EXCEPT ![t] = <<>>]
  /\ mem' = [mem EXCEPT ![t] = <<>>]
  /\ pc' = [pc EXCEPT ![t] =
              IF linkedinUrlRegex(text) # Null THEN "reactions.add" ELSE "done"]
  /\ UNCHANGED <<variant, files, now, slackTs>>

\* variation: a rejected reaction is not noticed
ReactionAddedContinues(t) ==
  /\ pc[t] = "reactions.add"
  /\ \E ok \in BOOLEAN :
       trace' = [trace EXCEPT ![t] =
                   Append(@, Event("reactions.add", ok, inp[t].ts))]
  /\ pc' = [pc EXCEPT ![t] = "loadPosts"]
  /\ UNCHANGED <<variant, files, now, slackTs, started, inp, mem, res>>

\* await app.client.reactions.add(...); a rejection goes to the catch
ReactionAdded(t) ==
  /\ pc[t] = "reactions.add"
  /\ \E ok \in BOOLEAN :
       /\ trace' = [trace EXCEPT ![t] =
                      Append(@, Event("reactions.add", ok, inp[t].ts))]
       /\ pc' = [pc EXCEPT ![t] = IF ok THEN "loadPosts" ELSE "done"]
  /\ UNCHANGED <<variant, files, now, slackTs, started, inp, mem, res>>

\* const posts = await loadData(POSTS_FILE); urls.forEach(push);
\* saveData stringifies the array and starts the write
PostsLoaded(t) ==
  /\ pc[t] = "loadPosts"
  /\ LET urls == linkedinUrlRegex(inp[t].text)
     IN \E ok \in BOOLEAN : \E stamps \in Readings(now, Len(urls)) :
          /\ mem' = [mem EXCEPT ![t] =
                       PushPosts(loadData(files[POSTS_FILE], ok), urls,
                                 inp[t], stamps)]
          /\ now' = stamps[Len(urls)]
          /\ trace' = [trace EXCEPT ![t] =
                         Append(@, Event("readFile", ok, <<POSTS_FILE>>))]
  /\ pc' = [pc EXCEPT ![t] = "savePosts"]
  /\ UNCHANGED <<variant, files, slackTs, started, inp, res>>

\* variation: a rejected write reaches the handler's catch
PostsSavedRethrows(t) ==
  /\ pc[t] = "savePosts"
  /\ \E ok \in BOOLEAN :
       /\ files' = [files EXCEPT ![POSTS_FILE] = saveData(@, mem[t], ok)]
       /\ trace' = [trace EXCEPT ![t] =
                      Append(@, Event("writeFile", ok, <<POSTS_FILE>>))]
       /\ pc' = [pc EXCEPT ![t] = IF ok THEN "say" ELSE "done"]
  /\ UNCHANGED <<variant, now, slackTs, started, inp, mem, res>>

\* await saveData(POSTS_FILE, posts) settles
PostsSaved(t) ==
  /\ pc[t] = "savePosts"
  /\ \E ok \in BOOLEAN :
       /\ files' = [files EXCEPT ![POSTS_FILE] = saveData(@, mem[t], ok)]
       /\ trace' = [trace EXCEPT ![t] =
                      Append(@, Event("writeFile", ok, <<POSTS_FILE>>))]
  /\ pc' = [pc EXCEPT ![t] = "say"]
  /\ UNCHANGED <<variant, now, slackTs, started, inp, mem, res>>

\* await say({text: `... ${urls[0]}`, thread_ts: message.ts}) settles
Said(t) ==
  /\ pc[t] = "say"
  /\ \E ok \in BOOLEAN :
       trace' = [trace EXCEPT ![t] =
                   Append(@, Event("say", ok,
                                   ReplyUrl(linkedinUrlRegex(inp[t].text))))]
  /\ pc' = [pc EXCEPT ![t] = "done"]
  /\ UNCHANGED <<variant, files, now, slackTs, started, inp, mem, res>>

\* ------------------------------------------------------- content generation
JsNull == <<"null">>                  \* the JavaScript value null
GeneratedText == <<"AI text">>        \* completion.choices[0].message.content

\* the fixed fallback of generateContentPrompt
DailyFallback(v) ==
  IF v = "v1" THEN <<"Share a lesson you learned about customer communication">>
  ELSE <<"Daily LinkedIn Prompt: share a quick tip">>

\* the fixed fallback content of the custom command
CustomFallback(v, request) ==
  IF v = "v2"
  THEN <<"iPhone vs Android Users - Post Idea", "Visual Idea">>
  ELSE <<"iPhone vs Android Users - Post Idea">>

FallbackImagePrompt == <<"Professional iPhone vs Android comparison infographic">>
GeneratedImageUrl == <<"https://image">>

\* String.prototype.toLowerCase on the tokens of a request
LowerOf(c) ==
  CASE c = "IPHONE" -> "iphone" [] c = "ANDROID" -> "android"
    [] c = "iPhone" -> "iphone"
    [] c = "CHART" -> "chart" [] c = "GRAPH" -> "graph" [] c = "DATA" -> "data"
    [] c = "COMPARISON" -> "comparison" [] OTHER -> c
toLowerCase(str) == [i \in 1..Len(str) |-> LowerOf(str[i])]
\* String.prototype.includes: the word occurs somewhere in the string
includes(str, word) ==
  \E i \in 1..Len(str) :
    str[i] = word \/ (str[i] = "graphics" /\ word = "graph")

\* variation: the chart rule is tried before the iPhone/Android rule
imagePromptForChartFirst(request) ==
  LET lower == toLowerCase(request)
  IN IF includes(lower, "chart") \/ includes(lower, "graph")
          \/ includes(lower, "data")
       THEN <<"business chart or infographic, data visualization">>
     ELSE IF includes(lower, "iphone") /\ includes(lower, "android")
       THEN <<"infographic comparing iPhone vs Android">>
     ELSE IF includes(lower, "comparison")
       THEN <<"comparison infographic, side-by-side layout">>
     ELSE <<"Professional LinkedIn post graphic about ">> \o request

\* the image prompt generateCustomContent derives from the request
imagePromptFor(request) ==
  LET lower == toLowerCase(request)
  IN IF includes(lower, "iphone") /\ includes(lower, "android")
       THEN <<"infographic comparing iPhone vs Android">>
     ELSE IF includes(lower, "chart") \/ includes(lower, "graph")
               \/ includes(lower, "data")
       THEN <<"business chart or infographic, data visualization">>
     ELSE IF includes(lower, "comparison")
       THEN <<"comparison infographic, side-by-side layout">>
     ELSE <<"Professional LinkedIn post graphic about ">> \o request

\* String.prototype.trim
RECURSIVE TrimStart(_)
TrimStart(str) ==
  IF str # <<>> /\ Head(str) = SP THEN TrimStart(Tail(str)) ELSE str
RECURSIVE TrimEnd(_)
TrimEnd(str) ==
  IF str # <<>> /\ str[Len(str)] = SP
  THEN TrimEnd(SubSeq(str, 1, Len(str) - 1)) ELSE str
\* variation: the text is used untrimmed
untrimmed(str) == str

trim(str) == TrimEnd(TrimStart(str))

\* variation: the catch returns nothing
generateContentPromptNoFallback(v, ok) ==
  IF ok THEN GeneratedText ELSE Undefined

\* the value of a settled text generation: generateContentPrompt's return
generateContentPrompt(v, ok) ==
  IF ok THEN GeneratedText ELSE DailyFallback(v)

\* v1: the content the handler's inner try/catch leaves in `content`
InlineContent(request, ok) ==
  [content |-> IF ok THEN GeneratedText
               ELSE <<"3 Post Ideas: ">> \o request
                      \o <<"AI generation failed - try again!">>,
   imageUrl |-> Undefined, imagePrompt |-> Undefined,
   useAI |-> ok, ts |-> Undefined]

\* variation: the fallback is returned whatever the completion did
generateCustomContentAlwaysFallback(v, request, ok) ==
  [content |-> CustomFallback(v, request),
   imageUrl |-> IF v = "v3" THEN JsNull ELSE Undefined,
   imagePrompt |-> IF v = "v3" THEN FallbackImagePrompt ELSE Undefined,
   useAI |-> FALSE, ts |-> Undefined]

\* generateCustomContent's return when the text generation has settled
\* (imageUrl is filled in when the image generation settles)
generateCustomContent(v, request, ok) ==
  IF v = "v2"
  THEN [content |-> IF ok THEN GeneratedText ELSE CustomFallback(v, request),
        imageUrl |-> Undefined, imagePrompt |-> Undefined,
        useAI |-> ok, ts |-> Undefined]
  ELSE IF ok
  THEN [content |-> GeneratedText, imageUrl |-> JsNull,
        imagePrompt |-> imagePromptFor(request), useAI |-> TRUE, ts |-> Undefined]
  ELSE [content |-> CustomFallback(v, request), imageUrl |-> JsNull,
        imagePrompt |-> FallbackImagePrompt, useAI |-> FALSE, ts |-> Undefined]

Traced(t, op, ok, arg) == trace' = [trace EXCEPT ![t] = Append(@, Event(op, ok, arg))]
Goto(t, label) == pc' = [pc EXCEPT ![t] = label]

\* ------------------------------------------------------ the context builder
RecentPostsCount == 10        \* previousPosts.slice(-10)
RecentPromptsCount == 5       \* previousPrompts.slice(-5)

\* variation: the first k elements, arr.slice(0, k)
sliceHead(arr, k) ==
  IF Len(arr) <= k THEN arr ELSE SubSeq(arr, 1, k)

\* Array.prototype.slice(-k): the last k elements, all of them when the
\* array has fewer
slice(arr, k) ==
  IF Len(arr) <= k THEN arr ELSE SubSeq(arr, Len(arr) - k + 1, Len(arr))

\* the lines forEach appends: `- ${record.content}\n`, a missing property
\* being formatted as "undefined"
ContentLines(records) ==
  [i \in 1..Len(records) |-> <<"- ">> \o Get(records[i], "content")]

IdentityLine == <<"You are helping a sales team at SendBlue.com">>
PostsHeader == <<"Here are some recent successful posts from the team:">>
PromptsHeader == <<"Avoid repeating these recent prompts:">>

\* the system context generateContentPrompt builds, as a sequence of lines;
\* the first revision sends a fixed sentence
BuildContext(v, previousPosts, previousPrompts) ==
  IF v = "v1" THEN << <<"You are a LinkedIn content coach">> >>
  ELSE <<IdentityLine>>
       \o (IF Len(previousPosts) > 0
           THEN <<PostsHeader>>
                  \o ContentLines(slice(previousPosts, RecentPostsCount))
           ELSE <<>>)
       \o (IF Len(previousPrompts) > 0
           THEN <<PromptsHeader>>
                  \o ContentLines(slice(previousPrompts, RecentPromptsCount))
           ELSE <<>>)

\* ---------------------------------------------- the /linkedin-prompt command
DailyPrompt(result, stamp) ==
  [id |-> result.ts, content |-> result.content,
   timestamp |-> Iso(stamp), channel |-> CHANNEL]

\* variation: the handler starts the pipeline without acknowledging
PromptCommandWorkFirst(t) ==
  /\ Finished(t)
  /\ started' = started + 1
  /\ inp' = [inp EXCEPT ![t] = [kind |-> "prompt", text |-> <<>>,
                                channel_id |-> CHANNEL]]
  /\ res' = [res EXCEPT ![t] = NoResult]
  /\ mem' = [mem EXCEPT ![t] = <<>>]
  /\ trace' = [trace EXCEPT ![t] = <<>>]
  /\ Goto(t, IF variant = "v1" THEN "p.generate" ELSE "p.loadPosts")
  /\ UNCHANGED <<variant, files, now, slackTs>>

\* app.command('/linkedin-prompt'): the handler starts and calls ack()
PromptCommand(t) ==
  /\ Finished(t)
  /\ started' = started + 1
  /\ inp' = [inp EXCEPT ![t] = [kind |-> "prompt", text |-> <<>>,
                                channel_id |-> CHANNEL]]
  /\ res' = [res EXCEPT ![t] = NoResult]
  /\ mem' = [mem EXCEPT ![t] = <<>>]
  /\ trace' = [trace EXCEPT ![t] = <<>>]
  /\ Goto(t, "p.ack")
  /\ UNCHANGED <<variant, files, now, slackTs>>

\* await ack() settles; it is outside the try, so a rejection escapes
PromptAcked(t) ==
  /\ pc[t] = "p.ack"
  /\ \E ok \in BOOLEAN :
       /\ Traced(t, "ack", ok, <<>>)
       /\ Goto(t, IF ~ok THEN "crashed"
                  ELSE IF variant = "v1" THEN "p.generate" ELSE "p.loadPosts")
  /\ UNCHANGED <<variant, files, now, slackTs, started, inp, mem, res>>

\* generateContentPrompt: const previousPosts = await loadData(POSTS_FILE)
PromptPostsLoaded(t) ==
  /\ pc[t] = "p.loadPosts"
  /\ \E ok \in BOOLEAN :
       /\ Traced(t, "readFile", ok, <<POSTS_FILE>>)
       /\ res' = [res EXCEPT ![t] =
                    [content |-> Undefined, ts |-> Undefined,
                     previousPosts |-> loadData(files[POSTS_FILE], ok)]]
  /\ Goto(t, "p.loadPrompts")
  /\ UNCHANGED <<variant, files, now, slackTs, started, inp, mem>>

\* generateContentPrompt: const previousPrompts = await loadData(PROMPTS_FILE)
PromptPromptsLoaded(t) ==
  /\ pc[t] = "p.loadPrompts"
  /\ \E ok \in BOOLEAN :
       /\ Traced(t, "readFile", ok, <<PROMPTS_FILE>>)
       /\ res' = [res EXCEPT ![t] =
                    [content |-> Undefined, ts |-> Undefined,
                     previousPosts |-> res[t].previousPosts,
                     previousPrompts |-> loadData(files[PROMPTS_FILE], ok)]]
  /\ Goto(t, "p.generate")
  /\ UNCHANGED <<variant, files, now, slackTs, started, inp, mem>>

\* generateContentPrompt: the context is built from the loaded arrays and
\* sent as the system message; the completion settles; a rejection returns
\* the fallback; postDailyPrompt then calls chat.postMessage
PromptGenerated(t) ==
  /\ pc[t] = "p.generate"
  /\ \E ok \in BOOLEAN :
       /\ trace' = [trace EXCEPT ![t] =
                      Append(@, [op |-> "chat.completions", ok |-> ok,
                                 arg |-> <<>>,
                                 context |->
                                   BuildContext(variant,
                                                Get(res[t], "previousPosts"),
                                                Get(res[t], "previousPrompts"))])]
       /\ res' = [res EXCEPT ![t] =
                    [content |-> generateContentPrompt(variant, ok),
                     ts |-> Undefined]]
  /\ Goto(t, "p.post")
  /\ UNCHANGED <<variant, files, now, slackTs, started, inp, mem>>

\* variation: a rejected post is not noticed and the prompt is logged
PromptPostedIgnoresFailure(t) ==
  /\ pc[t] = "p.post"
  /\ \E ok \in BOOLEAN :
       /\ Traced(t, "postMessage", ok, res[t].content)
       /\ slackTs' = IF ok THEN slackTs + 1 ELSE slackTs
       /\ res' = [res EXCEPT ![t].ts =
                    IF ok THEN <<"ts", ToString(slackTs + 1)>> ELSE Undefined]
       /\ Goto(t, "p.loadLog")
  /\ UNCHANGED <<variant, files, now, started, inp, mem>>

\* postDailyPrompt: chat.postMessage settles; a rejection is caught and
\* logged inside postDailyPrompt, which then returns undefined
PromptPosted(t) ==
  /\ pc[t] = "p.post"
  /\ \E ok \in BOOLEAN :
       /\ Traced(t, "postMessage", ok, res[t].content)
       /\ slackTs' = IF ok THEN slackTs + 1 ELSE slackTs
       /\ res' = [res EXCEPT ![t].ts =
                    IF ok THEN <<"ts", ToString(slackTs + 1)>> ELSE Undefined]
       /\ Goto(t, IF ok THEN "p.loadLog" ELSE "p.respond")
  /\ UNCHANGED <<variant, files, now, started, inp, mem>>

\* postDailyPrompt: const prompts = await loadData(PROMPTS_FILE);
\* prompts.push({...}); saveData starts the write
PromptLogLoaded(t) ==
  /\ pc[t] = "p.loadLog"
  /\ \E ok \in BOOLEAN : \E stamp \in now..MaxClock :
       /\ Traced(t, "readFile", ok, <<PROMPTS_FILE>>)
       /\ mem' = [mem EXCEPT ![t] =
                    Append(loadData(files[PROMPTS_FILE], ok),
                           DailyPrompt(res[t], stamp))]
       /\ now' = stamp
  /\ Goto(t, "p.save")
  /\ UNCHANGED <<variant, files, slackTs, started, inp, res>>

\* postDailyPrompt: await saveData(PROMPTS_FILE, prompts) settles
PromptSaved(t) ==
  /\ pc[t] = "p.save"
  /\ \E ok \in BOOLEAN :
       /\ Traced(t, "writeFile", ok, <<PROMPTS_FILE>>)
       /\ files' = [files EXCEPT ![PROMPTS_FILE] = saveData(@, mem[t], ok)]
  /\ Goto(t, "p.respond")
  /\ UNCHANGED <<variant, now, slackTs, started, inp, mem, res>>

\* await respond('Daily LinkedIn prompt posted!') settles; a rejection is
\* caught by the handler, which responds with the error text
PromptResponded(t) ==
  /\ pc[t] = "p.respond"
  /\ \E ok \in BOOLEAN :
       /\ Traced(t, "respond", ok, <<"Daily LinkedIn prompt posted!">>)
       /\ Goto(t, IF ok THEN "done" ELSE "p.respondError")
  /\ UNCHANGED <<variant, files, now, slackTs, started, inp, mem, res>>

\* await respond('Error posting prompt. Please try again.') in the catch
PromptErrorResponded(t) ==
  /\ pc[t] = "p.respondError"
  /\ \E ok \in BOOLEAN :
       /\ Traced(t, "respond", ok, <<"Error posting prompt. Please try again.">>)
       /\ Goto(t, IF ok THEN "done" ELSE "crashed")
  /\ UNCHANGED <<variant, files, now, slackTs, started, inp, mem, res>>

\* --------------------------------------------- the /linkedin-machine command
UsageHint == <<"Please provide a specific request!">>
LoadingNotice == <<"Generating your custom LinkedIn content and image...">>
SorryText == <<"Sorry, I had trouble generating that content. Please try again!">>

\* the blocks of the posted message
MachineBlocks(v, result) ==
  IF v = "v1"
  THEN << <<"section", IF result.useAI THEN "(AI)" ELSE "(Fallback)">>
             \o result.content >>
  ELSE IF v = "v2"
  THEN << <<"section">> \o result.content,
          <<"context", "share the LinkedIn URL here">> >>
  ELSE << <<"section">> \o result.content >>
       \o (IF result.imageUrl # JsNull
           THEN << <<"image">> \o result.imageUrl,
                   <<"context", "Generated image prompt:">> \o result.imagePrompt >>
           ELSE << <<"context", "Image generation failed">> >>)
       \o << <<"context", "share the LinkedIn URL here">> >>

\* the record the v3 handler pushes: Date.now() is read before new Date()
CustomPrompt(result, request, idStamp, stamp) ==
  [id |-> <<ToString(idStamp)>>, content |-> result.content,
   request |-> request, type |-> <<"custom">>,
   imageUrl |-> result.imageUrl, imagePrompt |-> result.imagePrompt,
   timestamp |-> Iso(stamp), channel |-> CHANNEL]

\* the record the v2 handler pushes
CustomPromptText(result, request, idStamp, stamp) ==
  [id |-> <<ToString(idStamp)>>, content |-> result.content,
   request |-> request, type |-> <<"custom">>,
   timestamp |-> Iso(stamp), channel |-> CHANNEL]

\* `!request`: the empty string is falsy
IsEmptyRequest(request) == request = <<>>

\* the record the v1 handler pushes
CustomPromptInline(result, request, idStamp, stamp) ==
  [id |-> <<ToString(idStamp)>>, content |-> result.content,
   request |-> request,
   type |-> IF result.useAI THEN <<"ai_generated">> ELSE <<"fallback">>,
   timestamp |-> Iso(stamp), channel |-> CHANNEL]

\* app.command('/linkedin-machine'): the handler starts and calls ack()
MachineCommand(t, text) ==
  /\ Finished(t)
  /\ started' = started + 1
  /\ inp' = [inp EXCEPT ![t] = [kind |-> "machine", text |-> text,
                                channel_id |-> CHANNEL]]
  /\ res' = [res EXCEPT ![t] = NoResult]
  /\ mem' = [mem EXCEPT ![t] = <<>>]
  /\ trace' = [trace EXCEPT ![t] = <<>>]
  /\ Goto(t, "m.ack")
  /\ UNCHANGED <<variant, files, now, slackTs>>

\* await ack() settles (outside the try); then request = command.text.trim()
\* and the handler responds with the usage hint or goes on to generate
MachineAcked(t) ==
  /\ pc[t] = "m.ack"
  /\ \E ok \in BOOLEAN :
       /\ Traced(t, "ack", ok, <<>>)
       /\ Goto(t, IF ~ok THEN "crashed"
                  ELSE IF IsEmptyRequest(trim(inp[t].text)) THEN "m.respondHint"
                  ELSE IF variant = "v1" THEN "m.generateInline"
                  ELSE IF variant = "v2" THEN "m.loadPosts"
                  ELSE "m.respondLoading")
  /\ UNCHANGED <<variant, files, now, slackTs, started, inp, mem, res>>

\* await respond({text: usage hint}) settles; then return
MachineHintResponded(t) ==
  /\ pc[t] = "m.respondHint"
  /\ \E ok \in BOOLEAN :
       /\ Traced(t, "respond", ok, UsageHint)
       /\ Goto(t, IF ok THEN "done" ELSE "m.respondError")
  /\ UNCHANGED <<variant, files, now, slackTs, started, inp, mem, res>>

\* await respond("Generating ...") settles; then generateCustomContent
MachineLoadingResponded(t) ==
  /\ pc[t] = "m.respondLoading"
  /\ \E ok \in BOOLEAN :
       /\ Traced(t, "respond", ok, LoadingNotice)
       /\ Goto(t, IF ok THEN "m.loadPosts" ELSE "m.respondError")
  /\ UNCHANGED <<variant, files, now, slackTs, started, inp, mem, res>>

\* generateCustomContent: const previousPosts = await loadData(POSTS_FILE)
MachinePostsLoaded(t) ==
  /\ pc[t] = "m.loadPosts"
  /\ \E ok \in BOOLEAN : Traced(t, "readFile", ok, <<POSTS_FILE>>)
  /\ Goto(t, "m.generate")
  /\ UNCHANGED <<variant, files, now, slackTs, started, inp, mem, res>>

\* variation: the image is requested whatever the completion did
MachineGeneratedThenImage(t) ==
  /\ pc[t] = "m.generate"
  /\ \E ok \in BOOLEAN :
       /\ Traced(t, "chat.completions", ok, trim(inp[t].text))
       /\ res' = [res EXCEPT ![t] =
                    generateCustomContent(variant, trim(inp[t].text), ok)]
       /\ Goto(t, IF variant = "v3" THEN "m.image" ELSE "m.post")
  /\ UNCHANGED <<variant, files, now, slackTs, started, inp, mem>>

\* generateCustomContent: the completion settles; on success the image
\* prompt is derived and the image is requested, on failure the catch
\* returns the fallback result and the handler posts it
MachineGenerated(t) ==
  /\ pc[t] = "m.generate"
  /\ \E ok \in BOOLEAN :
       /\ Traced(t, "chat.completions", ok, trim(inp[t].text))
       /\ res' = [res EXCEPT ![t] =
                    generateCustomContent(variant, trim(inp[t].text), ok)]
       /\ Goto(t, IF ok /\ variant = "v3" THEN "m.image" ELSE "m.post")
  /\ UNCHANGED <<variant, files, now, slackTs, started, inp, mem>>

\* v1: the completion inside the handler settles; its own catch sets the
\* fallback content and useAI = false
MachineGeneratedInline(t) ==
  /\ pc[t] = "m.generateInline"
  /\ \E ok \in BOOLEAN :
       /\ Traced(t, "chat.completions", ok, trim(inp[t].text))
       /\ res' = [res EXCEPT ![t] = InlineContent(trim(inp[t].text), ok)]
  /\ Goto(t, "m.post")
  /\ UNCHANGED <<variant, files, now, slackTs, started, inp, mem>>

\* variation: a rejected image generation reaches the outer catch, which
\* returns the fallback result
MachineImageGeneratedRethrows(t) ==
  /\ pc[t] = "m.image"
  /\ \E ok \in BOOLEAN :
       /\ Traced(t, "images.generate", ok, res[t].imagePrompt)
       /\ res' = [res EXCEPT ![t] =
                    IF ok THEN [res[t] EXCEPT !.imageUrl = GeneratedImageUrl]
                    ELSE generateCustomContent(variant, trim(inp[t].text), FALSE)]
  /\ Goto(t, "m.post")
  /\ UNCHANGED <<variant, files, now, slackTs, started, inp, mem>>

\* generateCustomContent: images.generate settles; a rejection is caught
\* and leaves imageUrl null
MachineImageGenerated(t) ==
  /\ pc[t] = "m.image"
  /\ \E ok \in BOOLEAN :
       /\ Traced(t, "images.generate", ok, res[t].imagePrompt)
       /\ res' = [res EXCEPT ![t].imageUrl =
                    IF ok THEN GeneratedImageUrl ELSE JsNull]
  /\ Goto(t, "m.post")
  /\ UNCHANGED <<variant, files, now, slackTs, started, inp, mem>>

\* variation: a rejected post is not noticed and the record is saved
MachinePostedIgnoresFailure(t) ==
  /\ pc[t] = "m.post"
  /\ \E ok \in BOOLEAN :
       /\ trace' = [trace EXCEPT ![t] =
                      Append(@, [op |-> "postMessage", ok |-> ok,
                                 arg |-> res[t].content,
                                 blocks |-> MachineBlocks(variant, res[t])])]
       /\ slackTs' = IF ok THEN slackTs + 1 ELSE slackTs
       /\ Goto(t, "m.loadLog")
  /\ UNCHANGED <<variant, files, now, started, inp, mem, res>>

\* await app.client.chat.postMessage({text, blocks}) settles
MachinePosted(t) ==
  /\ pc[t] = "m.post"
  /\ \E ok \in BOOLEAN :
       /\ trace' = [trace EXCEPT ![t] =
                      Append(@, [op |-> "postMessage", ok |-> ok,
                                 arg |-> res[t].content,
                                 blocks |-> MachineBlocks(variant, res[t])])]
       /\ slackTs' = IF ok THEN slackTs + 1 ELSE slackTs
       /\ Goto(t, IF ok THEN "m.loadLog" ELSE "m.respondError")
  /\ UNCHANGED <<variant, files, now, started, inp, mem, res>>

\* const prompts = await loadData(PROMPTS_FILE); prompts.push({...});
\* saveData starts the write
MachineLogLoaded(t) ==
  /\ pc[t] = "m.loadLog"
  /\ \E ok \in BOOLEAN : \E stamps \in Readings(now, 2) :
       /\ Traced(t, "readFile", ok, <<PROMPTS_FILE>>)
       /\ mem' = [mem EXCEPT ![t] =
                    Append(loadData(files[PROMPTS_FILE], ok),
                           IF variant = "v1"
                           THEN CustomPromptInline(res[t], trim(inp[t].text),
                                                   stamps[1], stamps[2])
                           ELSE IF variant = "v2"
                           THEN CustomPromptText(res[t], trim(inp[t].text),
                                                 stamps[1], stamps[2])
                           ELSE CustomPrompt(res[t], trim(inp[t].text),
                                             stamps[1], stamps[2]))]
       /\ now' = stamps[2]
  /\ Goto(t, "m.save")
  /\ UNCHANGED <<variant, files, slackTs, started, inp, res>>

\* variation: the array is saved to the posts file
MachineSavedToPosts(t) ==
  /\ pc[t] = "m.save"
  /\ \E ok \in BOOLEAN :
       /\ Traced(t, "writeFile", ok, <<POSTS_FILE>>)
       /\ files' = [files EXCEPT ![POSTS_FILE] = saveData(@, mem[t], ok)]
  /\ Goto(t, "done")
  /\ UNCHANGED <<variant, now, slackTs, started, inp, mem, res>>

\* await saveData(PROMPTS_FILE, prompts) settles; the handler returns
MachineSaved(t) ==
  /\ pc[t] = "m.save"
  /\ \E ok \in BOOLEAN :
       /\ Traced(t, "writeFile", ok, <<PROMPTS_FILE>>)
       /\ files' = [files EXCEPT ![PROMPTS_FILE] = saveData(@, mem[t], ok)]
  /\ Goto(t, "done")
  /\ UNCHANGED <<variant, now, slackTs, started, inp, mem, res>>

\* the handler's catch: await respond('Sorry, ...') settles
MachineErrorResponded(t) ==
  /\ pc[t] = "m.respondError"
  /\ \E ok \in BOOLEAN :
       /\ Traced(t, "respond", ok, SorryText)
       /\ Goto(t, IF ok THEN "done" ELSE "crashed")
  /\ UNCHANGED <<variant, files, now, slackTs, started, inp, mem, res>>

Steps(t) ==
  \/ ReactionAdded(t) \/ PostsLoaded(t) \/ PostsSaved(t) \/ Said(t)
  \/ PromptAcked(t) \/ PromptPostsLoaded(t) \/ PromptPromptsLoaded(t)
  \/ PromptGenerated(t) \/ PromptPosted(t) \/ PromptLogLoaded(t)
  \/ PromptSaved(t) \/ PromptResponded(t) \/ PromptErrorResponded(t)
  \/ MachineAcked(t) \/ MachineHintResponded(t) \/ MachineLoadingResponded(t)
  \/ MachinePostsLoaded(t) \/ MachineGenerated(t) \/ MachineGeneratedInline(t)
  \/ MachineImageGenerated(t) \/ MachinePosted(t) \/ MachineLogLoaded(t)
  \/ MachineSaved(t) \/ MachineErrorResponded(t)

\* ---------------------------------------------------------- specifications
\* a log a previous run left behind
ExistingPost ==
  [url |-> <<"W", "x">>, userId |-> <<"U0">>, timestamp |-> Iso(0),
   channel |-> CHANNEL, messageText |-> <<"W", "x">>]
ExistingPrompt ==
  [id |-> <<"ts", "0">>, content |-> GeneratedText, timestamp |-> Iso(0),
   channel |-> CHANNEL]
InitialPosts ==
  {Absent, Malformed, JsonFile(<<>>), JsonFile(JSONstringify(<<ExistingPost>>))}
InitialPrompts ==
  {Absent, Malformed, JsonFile(<<>>), JsonFile(JSONstringify(<<ExistingPrompt>>))}

Init ==
  /\ variant \in Variants
  /\ files \in {f \in [FileNames -> InitialPosts \cup InitialPrompts] :
                  /\ f[POSTS_FILE] \in InitialPosts
                  /\ f[PROMPTS_FILE] \in InitialPrompts}
  /\ now = 0
  /\ slackTs = 0
  /\ started = 0
  /\ pc = [t \in Tasks |-> "idle"]
  /\ inp = [t \in Tasks |-> NoInput]
  /\ mem = [t \in Tasks |-> <<>>]
  /\ res = [t \in Tasks |-> NoResult]
  /\ trace = [t \in Tasks |-> <<>>]

\* the bot after a fresh start: each task handles one event or command and
\* the handlers run concurrently
InitFresh == Init /\ files = [f \in FileNames |-> Absent]

Next ==
  \/ \E t \in Tasks :
       /\ pc[t] = "idle"
       /\ \/ \E text \in SampleTexts : MessageEvent(t, text, <<"U1">>)
          \/ PromptCommand(t)
          \/ \E text \in SampleCommands : MachineCommand(t, text)
  \/ \E t \in Tasks : Steps(t)

Spec == InitFresh /\ [][Next]_vars

\* one listener invocation, on every message text
InitListener == Init /\ variant = "v3" /\ files[PROMPTS_FILE] = Absent

NextListener ==
  \/ /\ started = 0
     /\ \E text \in MessageTexts : MessageEvent("t1", text, <<"U1">>)
  \/ ReactionAdded("t1")
  \/ PostsLoaded("t1")
  \/ PostsSaved("t1")
  \/ Said("t1")

SpecListener == InitListener /\ [][NextListener]_vars

\* one handler invocation at a time, on every command text
NextCommands ==
  \/ /\ started = 0
     /\ \/ \E text \in SampleTexts, user \in MessageUsers :
             MessageEvent("t1", text, user)
        \/ PromptCommand("t1")
        \/ \E text \in CommandTexts : MachineCommand("t1", text)
  \/ Steps("t1")

SpecCommands == Init /\ [][NextCommands]_vars

\* the log store used by one caller at a time: load, push, save
StoreRecords(f) ==
  IF f = POSTS_FILE
  THEN { ExistingPost,
         SharedPost(<<"U", "x">>,
                    [user |-> Undefined, channel |-> CHANNEL,
                     text |-> <<"see", SP, "U", "x">>], 1) }
  ELSE { ExistingPrompt,
         CustomPrompt(generateCustomContent("v3", <<"w">>, FALSE), <<"w">>, 1, 1) }

\* const data = await loadData(f); data.push(record); await saveData(f, data)
LoadAppendSave(t, f, record) ==
  /\ pc[t] = "idle"
  /\ \E readOk \in BOOLEAN, writeOk \in BOOLEAN :
       LET data == Append(loadData(files[f], readOk), record)
       IN /\ mem' = [mem EXCEPT ![t] = data]
          /\ files' = [files EXCEPT ![f] = saveData(@, data, writeOk)]
          /\ trace' = [trace EXCEPT ![t] =
                         Append(@, [op |-> "cycle", ok |-> readOk /\ writeOk,
                                    arg |-> <<f>>, record |-> record])]
  /\ started' = started + 1
  /\ UNCHANGED <<variant, now, slackTs, pc, inp, res>>

InitStore ==
  /\ Init
  /\ variant = "v3"
  /\ \A f \in FileNames : files[f] \in {Absent, JsonFile(<<>>)}

NextStore ==
  /\ started < MaxCycles
  /\ \E f \in FileNames : \E record \in StoreRecords(f) :
       LoadAppendSave("t1", f, record)

SpecStore == InitStore /\ [][NextStore]_vars

\* one invocation of the image-augmented custom command, on every
\* keyword-bearing request
InitImage == InitFresh /\ variant = "v3"

NextImage ==
  \/ /\ started = 0
     /\ \E text \in KeywordRequests : MachineCommand("t1", text)
  \/ MachineAcked("t1")
  \/ MachineHintResponded("t1")
  \/ MachineLoadingResponded("t1")
  \/ MachinePostsLoaded("t1")
  \/ MachineGenerated("t1")
  \/ MachineImageGenerated("t1")
  \/ MachinePosted("t1")
  \/ MachineLogLoaded("t1")
  \/ MachineSaved("t1")
  \/ MachineErrorResponded("t1")

SpecImage == InitImage /\ [][NextImage]_vars

\* the logs earlier invocations left behind: n shared posts, m daily prompts
PostsLog(n) ==
  [i \in 1..n |->
     SharedPost(<<"U", ToString(i)>>,
                [user |-> <<"U1">>, channel |-> CHANNEL,
                 text |-> <<"U", ToString(i)>>], 0)]
PromptsLog(m) ==
  [i \in 1..m |->
     DailyPrompt([ts |-> <<"ts", ToString(i)>>,
                  content |-> <<"prompt", ToString(i)>>], 0)]

\* one daily-prompt command on logs of every length up to the bounds
InitContext ==
  /\ variant \in Variants
  /\ \E n \in 0..MaxPosts, m \in 0..MaxPrompts :
       files = [f \in FileNames |->
                  IF f = POSTS_FILE THEN JsonFile(JSONstringify(PostsLog(n)))
                  ELSE JsonFile(JSONstringify(PromptsLog(m)))]
  /\ now = 0
  /\ slackTs = 0
  /\ started = 0
  /\ pc = [t \in Tasks |-> "idle"]
  /\ inp = [t \in Tasks |-> NoInput]
  /\ mem = [t \in Tasks |-> <<>>]
  /\ res = [t \in Tasks |-> NoResult]
  /\ trace = [t \in Tasks |-> <<>>]

NextContext ==
  \/ started = 0 /\ PromptCommand("t1")
  \/ PromptAcked("t1")
  \/ PromptPostsLoaded("t1")
  \/ PromptPromptsLoaded("t1")
  \/ PromptGenerated("t1")
  \/ PromptPosted("t1")
  \/ PromptLogLoaded("t1")
  \/ PromptSaved("t1")
  \/ PromptResponded("t1")
  \/ PromptErrorResponded("t1")

SpecContext == InitContext /\ [][NextContext]_vars

\* ================================================================== claims
Count(tr, op) == Cardinality({i \in 1..Len(tr) : tr[i].op = op})
AllOk(tr) == \A i \in 1..Len(tr) : tr[i].ok
EventsOf(tr, op) == SelectSeq(tr, LAMBDA e : e.op = op)
Log(f) == loadData(files[f], TRUE)
IsPrefixOf(a, b) == Len(a) <= Len(b) /\ SubSeq(b, 1, Len(a)) = a

\* The occurrences of the link pattern, stated on the text itself: a word is
\* a maximal run of non-whitespace; an occurrence starts at the first link
\* prefix of a word that is followed by at least one more character of the
\* word, and runs to the end of the word.
SameWord(text, i, j) == \A m \in i..j : text[m] # SP
UrlStarts(text) ==
  IF text = Undefined THEN {}
  ELSE {i \in 1..(Len(text) - 1) :
          /\ text[i] \in {"U", "W"}
          /\ text[i + 1] # SP
          /\ \A j \in 1..(i - 1) :
                ~(text[j] \in {"U", "W"} /\ SameWord(text, j, i))}
WordEnd(text, i) ==
  CHOOSE m \in i..Len(text) :
    SameWord(text, i, m) /\ (m = Len(text) \/ text[m + 1] = SP)
NthUrl(text, n) ==
  LET i == CHOOSE a \in UrlStarts(text) :
             Cardinality({b \in UrlStarts(text) : b < a}) = n - 1
  IN  SubSeq(text, i, WordEnd(text, i))
Occurrences(text) == Cardinality(UrlStarts(text))

\* C1: a listener invocation on a text with k >= 1 occurrences of the link
\* pattern, all of whose calls succeed, adds the reaction once, posts one
\* threaded reply naming the first occurrence, and its save extends the
\* posts log by exactly k records, one per occurrence in source order.
C1_ListenerRecordsEveryUrl ==
  /\ [](\A t \in Tasks :
         LET text == inp[t].text
             k == Occurrences(text)
         IN (inp[t].kind = "message" /\ pc[t] = "done" /\ k >= 1
               /\ AllOk(trace[t]))
            => /\ Count(trace[t], "reactions.add") = 1
               /\ Count(trace[t], "writeFile") = 1
               /\ Count(trace[t], "say") = 1
               /\ Len(trace[t]) = 4
               /\ trace[t][1].arg = inp[t].ts
               /\ trace[t][4].op = "say"
               /\ trace[t][4].arg = NthUrl(text, 1))
  /\ [][\A t \in Tasks :
          LET text == inp[t].text
              k == Occurrences(text)
              old == Log(POSTS_FILE)
              new == loadData(files'[POSTS_FILE], TRUE)
          IN (pc[t] = "savePosts" /\ pc'[t] = "say" /\ AllOk(trace'[t]))
             => /\ k >= 1
                /\ Len(new) = Len(old) + k
                /\ IsPrefixOf(old, new)
                /\ \A i \in 1..k :
                      /\ new[Len(old) + i].url = NthUrl(text, i)
                      /\ new[Len(old) + i].messageText = text
                      /\ new[Len(old) + i].userId = inp[t].user
                      /\ new[Len(old) + i].channel = inp[t].channel]_vars

\* a message with two occurrences was recorded after an existing record
C1_Witness ==
  /\ pc["t1"] = "done" /\ inp["t1"].kind = "message"
  /\ Occurrences(inp["t1"].text) = 2
  /\ AllOk(trace["t1"]) /\ Count(trace["t1"], "say") = 1
  /\ Len(Log(POSTS_FILE)) = 3

\* C2: a listener invocation on a message without an occurrence of the link
\* pattern (or without text) makes no call at all: no reaction, no reply, no
\* read or write of a log file, and both files keep their content.
C2_NoMatchNoEffect ==
  /\ [](\A t \in Tasks :
         (inp[t].kind = "message" /\ Occurrences(inp[t].text) = 0)
           => (pc[t] = "done" /\ trace[t] = <<>> /\ mem[t] = <<>>))
  /\ [][\A t \in Tasks :
          (inp'[t].kind = "message" /\ Occurrences(inp'[t].text) = 0)
            => files' = files]_vars

\* a message that holds a bare link prefix has been handled
C2_Witness ==
  /\ pc["t1"] = "done" /\ inp["t1"].kind = "message"
  /\ inp["t1"].text # Undefined
  /\ \E i \in 1..Len(inp["t1"].text) : inp["t1"].text[i] \in {"U", "W"}
  /\ Occurrences(inp["t1"].text) = 0

\* ------------------------------------------------------------ C3, C4, C5
Blank(text) == \A i \in 1..Len(text) : text[i] = SP
Last(tr) == tr[Len(tr)]
GenFailed(tr) == \E i \in 1..Len(tr) : tr[i].op = "chat.completions" /\ ~tr[i].ok
OthersOk(tr) == \A i \in 1..Len(tr) : tr[i].op # "chat.completions" => tr[i].ok
\* the fallback content of the entry point the task runs
FallbackOf(t) ==
  IF inp[t].kind = "prompt" THEN DailyFallback(variant)
  ELSE IF variant = "v1" THEN InlineContent(trim(inp[t].text), FALSE).content
  ELSE CustomFallback(variant, trim(inp[t].text))

\* C3: a custom-content command whose text is empty or all whitespace is
\* acknowledged and answered with the usage hint; it makes no text
\* generation call, no image generation call, no post-message call, no file
\* read or write, and leaves the prompts log as it was.
C3_EmptyRequestOnlyHint ==
  /\ [](\A t \in Tasks :
         (inp[t].kind = "machine" /\ Blank(inp[t].text))
           => /\ Count(trace[t], "chat.completions") = 0
              /\ Count(trace[t], "images.generate") = 0
              /\ Count(trace[t], "postMessage") = 0
              /\ Count(trace[t], "writeFile") = 0
              /\ Count(trace[t], "readFile") = 0
              /\ Count(trace[t], "ack") <= 1
              /\ mem[t] = <<>>
              /\ (Len(trace[t]) >= 1 => trace[t][1].op = "ack")
              /\ (Len(trace[t]) >= 2 =>
                    trace[t][2].op = "respond" /\ trace[t][2].arg = UsageHint)
              /\ ((pc[t] \in {"done", "crashed"} /\ trace[t][1].ok)
                    => Len(trace[t]) >= 2)
              /\ ((pc[t] = "done" /\ AllOk(trace[t])) => Len(trace[t]) = 2))
  /\ [][\A t \in Tasks :
          (inp'[t].kind = "machine" /\ Blank(inp'[t].text))
            => files' = files]_vars

\* a whitespace-only command has been answered with the hint
C3_Witness ==
  /\ pc["t1"] = "done" /\ inp["t1"].kind = "machine"
  /\ Len(inp["t1"].text) = 2 /\ Blank(inp["t1"].text)
  /\ Len(trace["t1"]) = 2 /\ AllOk(trace["t1"])
  /\ trace["t1"][2].arg = UsageHint

\* the reads generateContentPrompt / generateCustomContent make before the
\* completion call
GeneratorReadFailed(tr) ==
  \E i \in 1..Len(tr) : tr[i].op = "readFile" /\ ~tr[i].ok
InGenerator(t) ==
  \/ inp[t].kind = "prompt"
  \/ inp[t].kind = "machine" /\ variant \in {"v2", "v3"}
JustGenerated(t) ==
  InGenerator(t) /\ trace[t] # <<>> /\ Last(trace[t]).op = "chat.completions"

\* C4 as stated: when the completion call has failed, or a log load inside
\* the generator has failed, the generator returns the fallback of its entry
\* point.
C4_FallbackOnAnyFailure ==
  \A t \in Tasks :
    (JustGenerated(t)
       /\ (~Last(trace[t]).ok \/ GeneratorReadFailed(trace[t])))
      => res[t].content = FallbackOf(t)

\* C4 amended: when the completion call fails, the generator returns the
\* fixed fallback of its entry point and the caller continues with it (no
\* exception reaches the caller); a failed log load inside the generator is
\* absorbed by loadData: the generator goes on to the completion call, and
\* returns the generated text when that call succeeds.
C4_FallbackOnGenerationFailure ==
  /\ [](\A t \in Tasks :
         JustGenerated(t)
           => /\ ~Last(trace[t]).ok
                   => /\ res[t].content = FallbackOf(t)
                      /\ pc[t] \in {"p.post", "m.post"}
                      /\ (inp[t].kind = "machine" /\ variant = "v3")
                           => /\ res[t].imageUrl = JsNull
                              /\ res[t].imagePrompt = FallbackImagePrompt
              /\ Last(trace[t]).ok
                   => /\ res[t].content = GeneratedText
                      /\ pc[t] \in {"p.post", "m.post", "m.image"})
  /\ [][\A t \in Tasks :
          (pc[t] \in {"p.loadPosts", "p.loadPrompts", "m.loadPosts"}
             /\ pc'[t] # pc[t])
            => pc'[t] \in {"p.loadPrompts", "p.generate", "m.generate"}]_vars

\* the image-augmented generator has returned its fallback after a failed
\* completion call
C4_Witness ==
  /\ JustGenerated("t1") /\ ~Last(trace["t1"]).ok
  /\ inp["t1"].kind = "machine" /\ variant = "v3"
  /\ res["t1"].content = FallbackOf("t1")
  /\ pc["t1"] = "m.post"

\* C5: when the completion call fails during a daily-prompt or custom-content
\* command and the other calls of the invocation succeed, the fallback
\* content is what is posted, and the save extends the prompts log by one
\* record whose content is that fallback.
C5_FallbackPostedAndLogged ==
  /\ [](\A t \in Tasks :
         (inp[t].kind \in {"prompt", "machine"} /\ pc[t] = "done"
            /\ GenFailed(trace[t]) /\ OthersOk(trace[t]))
           => /\ Count(trace[t], "postMessage") = 1
              /\ EventsOf(trace[t], "postMessage")[1].arg = FallbackOf(t)
              /\ Count(trace[t], "writeFile") = 1)
  /\ [][\A t \in Tasks :
          LET old == Log(PROMPTS_FILE)
              new == loadData(files'[PROMPTS_FILE], TRUE)
          IN (pc[t] \in {"p.save", "m.save"} /\ pc'[t] # pc[t]
                /\ GenFailed(trace'[t]) /\ OthersOk(trace'[t]))
             => /\ Len(new) = Len(old) + 1
                /\ IsPrefixOf(old, new)
                /\ Get(new[Len(new)], "content") = FallbackOf(t)]_vars

\* a daily prompt whose completion call failed was posted and logged after
\* an existing record
C5_Witness ==
  /\ pc["t1"] = "done" /\ inp["t1"].kind = "prompt"
  /\ GenFailed(trace["t1"]) /\ OthersOk(trace["t1"])
  /\ Len(Log(PROMPTS_FILE)) = 2
  /\ Log(PROMPTS_FILE)[2].content = DailyFallback(variant)

\* ------------------------------------------------------------------ C6 - C10
\* two arrays hold the same records: every property reads the same
SameRecords(a, b) ==
  /\ Len(a) = Len(b)
  /\ \A i \in 1..Len(a) :
       \A key \in DOMAIN a[i] \cup DOMAIN b[i] : Get(a[i], key) = Get(b[i], key)
\* the records the cycles appended to f, in order
Appended(t, f) ==
  LET cycles == SelectSeq(trace[t], LAMBDA e : e.arg = <<f>>)
  IN  [i \in 1..Len(cycles) |-> cycles[i].record]

\* C6: with one caller at a time and every read and write succeeding, after
\* N load-append-save cycles on a log that was absent or empty, a load
\* returns exactly the N appended records, in append order.
C6_RoundTrip ==
  \A f \in FileNames :
    AllOk(trace["t1"]) => SameRecords(Log(f), Appended("t1", f))

\* three records, one of them without a user id, were appended to the posts
\* log and are loaded back
C6_Witness ==
  /\ AllOk(trace["t1"])
  /\ Len(Appended("t1", POSTS_FILE)) = 3
  /\ Len(Log(POSTS_FILE)) = 3
  /\ Appended("t1", POSTS_FILE)[2].userId = Undefined
  /\ Appended("t1", POSTS_FILE)[1] # Appended("t1", POSTS_FILE)[2]

\* the number of records an invocation pushes, and the file it pushes to
OwnCount(t) ==
  IF inp[t].kind = "message" THEN Occurrences(inp[t].text) ELSE 1
FileOf(t) == IF inp[t].kind = "message" THEN POSTS_FILE ELSE PROMPTS_FILE
Wrote(t, f) ==
  \E i \in 1..Len(trace[t]) :
    trace[t][i].op = "writeFile" /\ trace[t][i].arg = <<f>> /\ trace[t][i].ok
Reparsed(data) == JSONparse(JSONstringify(data))

\* C7: when two handlers that write the same log have both loaded it before
\* either saved (each loaded the empty log), and both complete without a
\* failed call, the file holds exactly the array of one of them: the records
\* the other appended are lost.
C7_LastWriterWins ==
  \A f \in FileNames : \A a \in Tasks : \A b \in Tasks \ {a} :
    ( /\ pc[a] = "done" /\ pc[b] = "done"
      /\ AllOk(trace[a]) /\ AllOk(trace[b])
      /\ Wrote(a, f) /\ Wrote(b, f)
      /\ Len(mem[a]) = OwnCount(a) /\ Len(mem[b]) = OwnCount(b) )
    => /\ Log(f) \in {Reparsed(mem[a]), Reparsed(mem[b])}
       /\ Len(Log(f)) < OwnCount(a) + OwnCount(b)

\* two listeners completed without error and the posts log lacks the records
\* of one of them
C7_Witness ==
  /\ pc["t1"] = "done" /\ pc["t2"] = "done"
  /\ inp["t1"].kind = "message" /\ inp["t2"].kind = "message"
  /\ AllOk(trace["t1"]) /\ AllOk(trace["t2"])
  /\ Wrote("t1", POSTS_FILE) /\ Wrote("t2", POSTS_FILE)
  /\ Occurrences(inp["t1"].text) = 2 /\ Occurrences(inp["t2"].text) = 1
  /\ Log(POSTS_FILE) = Reparsed(mem["t2"])
  /\ Len(Log(POSTS_FILE)) = 1

\* C8: the logs are append-only: every step keeps each log's records in place
\* and never shortens a log.
C8_AppendOnly ==
  [][\A f \in FileNames :
       IsPrefixOf(Log(f), loadData(files'[f], TRUE))]_vars

AfterLoad == {"savePosts", "p.save", "m.save"}

\* C9: when the log file is absent or malformed, or its read is rejected,
\* loadData returns the empty array and raises nothing: the handler goes on
\* to its next step with exactly its own records in the array, and a
\* successful save leaves exactly those in the log.
C9_LoadDegradesToEmpty ==
  /\ [](\A t \in Tasks :
         (pc[t] \in AfterLoad
            /\ (files[FileOf(t)].kind # "json" \/ ~Last(trace[t]).ok))
           => /\ Len(mem[t]) = OwnCount(t)
              /\ inp[t].kind = "message"
                   => \A i \in 1..Len(mem[t]) :
                        mem[t][i].url = NthUrl(inp[t].text, i)
              /\ inp[t].kind # "message"
                   => mem[t][1].content = res[t].content)
  /\ [][\A t \in Tasks :
          /\ (pc[t] = "loadPosts" /\ pc'[t] # pc[t]) => pc'[t] = "savePosts"
          /\ (pc[t] = "p.loadLog" /\ pc'[t] # pc[t]) => pc'[t] = "p.save"
          /\ (pc[t] = "m.loadLog" /\ pc'[t] # pc[t]) => pc'[t] = "m.save"
          /\ (pc[t] \in AfterLoad /\ pc'[t] # pc[t] /\ Last(trace'[t]).ok
                /\ (files[FileOf(t)].kind # "json" \/ ~Last(trace[t]).ok))
               => Len(loadData(files'[FileOf(t)], TRUE)) = OwnCount(t)]_vars

\* a listener whose read of a non-empty posts log was rejected goes on with
\* its two records only
C9_Witness ==
  /\ pc["t1"] = "savePosts"
  /\ files[POSTS_FILE].kind = "json" /\ Len(files[POSTS_FILE].data) = 1
  /\ ~Last(trace["t1"]).ok
  /\ Len(mem["t1"]) = 2

\* the index of the write in the trace
WriteAt(tr) == CHOOSE i \in 1..Len(tr) : tr[i].op = "writeFile"

\* C10: a rejected save leaves the file as it was, raises nothing and is not
\* retried: the handler goes on to the same step as after a successful save
\* (the listener's reply, the daily command's confirmation, the custom
\* command's return).
C10_FailedSaveIsSilent ==
  /\ [](\A t \in Tasks :
         /\ Count(trace[t], "writeFile") <= 1
         /\ (inp[t].kind = "message" /\ pc[t] = "done"
               /\ Count(trace[t], "writeFile") = 1)
              => /\ WriteAt(trace[t]) = Len(trace[t]) - 1
                 /\ Last(trace[t]).op = "say"
         /\ (inp[t].kind = "prompt" /\ pc[t] \in {"done", "crashed"}
               /\ Count(trace[t], "writeFile") = 1)
              => /\ Len(trace[t]) > WriteAt(trace[t])
                 /\ trace[t][WriteAt(trace[t]) + 1].op = "respond"
                 /\ trace[t][WriteAt(trace[t]) + 1].arg
                      = <<"Daily LinkedIn prompt posted!">>
         /\ (inp[t].kind = "machine" /\ pc[t] \in {"done", "crashed"}
               /\ Count(trace[t], "writeFile") = 1)
              => (pc[t] = "done" /\ Last(trace[t]).op = "writeFile"))
  /\ [][\A t \in Tasks :
          (pc[t] \in AfterLoad /\ pc'[t] # pc[t] /\ ~Last(trace'[t]).ok)
            => /\ files' = files
               /\ pc'[t] = (CASE pc[t] = "savePosts" -> "say"
                               [] pc[t] = "p.save" -> "p.respond"
                               [] pc[t] = "m.save" -> "done")]_vars

\* a listener whose save was rejected has posted its reply, and the posts
\* log still holds only the record it held before
C10_Witness ==
  /\ pc["t1"] = "done" /\ inp["t1"].kind = "message"
  /\ Count(trace["t1"], "writeFile") = 1
  /\ ~trace["t1"][WriteAt(trace["t1"])].ok
  /\ Last(trace["t1"]).op = "say" /\ Last(trace["t1"]).ok
  /\ Len(mem["t1"]) = 3
  /\ Len(Log(POSTS_FILE)) = 1

\* ------------------------------------------------------------------ C11 - C13
\* the spellings of a keyword that occur in requests
Spellings(word) ==
  CASE word = "iphone" -> {"iphone", "IPHONE", "iPhone"}
    [] word = "android" -> {"android", "ANDROID"}
    [] word = "chart" -> {"chart", "CHART"}
    [] word = "graph" -> {"graph", "GRAPH", "graphics"}
    [] word = "data" -> {"data", "DATA"}
    [] word = "comparison" -> {"comparison", "COMPARISON"}
Mentions(request, word) ==
  \E i \in 1..Len(request) : request[i] \in Spellings(word)
\* the ordered table of the image heuristic
RuleMatches(rule, request) ==
  CASE rule = 1 -> Mentions(request, "iphone") /\ Mentions(request, "android")
    [] rule = 2 -> \E word \in {"chart", "graph", "data"} : Mentions(request, word)
    [] rule = 3 -> Mentions(request, "comparison")
    [] rule = 4 -> TRUE
FirstRule(request) ==
  CHOOSE rule \in 1..4 :
    /\ RuleMatches(rule, request)
    /\ \A earlier \in 1..(rule - 1) : ~RuleMatches(earlier, request)
Instruction(rule, request) ==
  CASE rule = 1 -> <<"infographic comparing iPhone vs Android">>
    [] rule = 2 -> <<"business chart or infographic, data visualization">>
    [] rule = 3 -> <<"comparison infographic, side-by-side layout">>
    [] rule = 4 -> <<"Professional LinkedIn post graphic about ">> \o request
TextGenerated(tr) ==
  \E i \in 1..Len(tr) : tr[i].op = "chat.completions" /\ tr[i].ok
Request(t) == trim(inp[t].text)

\* C11: in the image-augmented revision, once the text generation of a
\* custom command has succeeded, the image instruction is the instruction of
\* the first rule of the ordered table that the request matches (1: both
\* iphone and android, 2: chart or graph or data, 3: comparison, 4: the
\* generic template embedding the request as typed), whatever the casing of
\* the keywords; it is a function of the request alone, and it is the prompt
\* of the image generation call.
C11_ImageHeuristic ==
  \A t \in Tasks :
    (inp[t].kind = "machine" /\ variant = "v3" /\ TextGenerated(trace[t]))
      => /\ res[t].imagePrompt = Instruction(FirstRule(Request(t)), Request(t))
         /\ \A i \in 1..Len(trace[t]) :
               trace[t][i].op = "images.generate"
                 => trace[t][i].arg
                      = Instruction(FirstRule(Request(t)), Request(t))
         /\ (Mentions(Request(t), "iphone") /\ Mentions(Request(t), "android"))
               => res[t].imagePrompt = Instruction(1, Request(t))

\* a request that names iPhone, android and a chart got the iPhone/Android
\* instruction as its image prompt
C11_Witness ==
  /\ inp["t1"].kind = "machine" /\ variant = "v3"
  /\ Mentions(Request("t1"), "iphone") /\ Mentions(Request("t1"), "android")
  /\ Mentions(Request("t1"), "chart")
  /\ Count(trace["t1"], "images.generate") = 1
  /\ Last(trace["t1"]).arg = Instruction(1, Request("t1"))

ImageFailed(tr) ==
  \E i \in 1..Len(tr) : tr[i].op = "images.generate" /\ ~tr[i].ok
HasImageBlock(blocks) ==
  \E i \in 1..Len(blocks) : blocks[i][1] = "image"
OnlyFailed(tr, op) == \A i \in 1..Len(tr) : tr[i].op # op => tr[i].ok
SavedNow(t) == pc[t] = "m.save" /\ pc'[t] = "done" /\ Last(trace'[t]).ok
NewLog(f) == loadData(files'[f], TRUE)

\* C12: in the image-augmented custom command, when the text generation
\* call has failed, no image generation call is issued, the content of the
\* posted message is the fixed iPhone/Android fallback text and the message
\* has no image block, and the record the handler appends has that content
\* and imageUrl null; when the other calls succeed the message is posted and
\* the record is in the log.
C12_TextFailureNoImage ==
  /\ [](\A t \in Tasks :
         (inp[t].kind = "machine" /\ variant = "v3" /\ GenFailed(trace[t]))
           => /\ Count(trace[t], "images.generate") = 0
              /\ res[t].content = CustomFallback("v3", Request(t))
              /\ res[t].imageUrl = JsNull
              /\ \A i \in 1..Len(trace[t]) :
                    trace[t][i].op = "postMessage"
                      => /\ trace[t][i].arg = CustomFallback("v3", Request(t))
                         /\ ~HasImageBlock(trace[t][i].blocks)
              /\ (pc[t] = "done" /\ OthersOk(trace[t]))
                    => /\ Count(trace[t], "postMessage") = 1
                       /\ Count(trace[t], "writeFile") = 1)
  /\ [][\A t \in Tasks :
          (inp[t].kind = "machine" /\ variant = "v3" /\ GenFailed(trace[t])
             /\ SavedNow(t))
            => LET new == NewLog(PROMPTS_FILE)
               IN /\ Len(new) >= 1
                  /\ Get(Last(new), "imageUrl") = JsNull
                  /\ Get(Last(new), "content") = CustomFallback("v3", Request(t))
                  /\ Get(Last(new), "request") = Request(t)]_vars

\* the request "iPhone android w" was answered with the fallback after a
\* failed text generation, and the logged record has no image
C12_Witness ==
  /\ pc["t1"] = "done" /\ inp["t1"].kind = "machine" /\ variant = "v3"
  /\ inp["t1"].text = <<"iPhone", "android", "w">>
  /\ GenFailed(trace["t1"]) /\ OthersOk(trace["t1"])
  /\ Len(Log(PROMPTS_FILE)) = 1
  /\ Log(PROMPTS_FILE)[1].imageUrl = JsNull
  /\ Log(PROMPTS_FILE)[1].content = CustomFallback("v3", Request("t1"))

\* C13: in the image-augmented custom command, when the text generation
\* call succeeded and the image generation call fails, the failure stays
\* inside the generator: the handler goes on to post the generated text (not
\* the fallback text) in a message without an image block, and the record it
\* appends carries the generated text, the image prompt of the heuristic and
\* imageUrl null.
C13_ImageFailureIsLocal ==
  /\ [](\A t \in Tasks :
         (inp[t].kind = "machine" /\ variant = "v3" /\ ImageFailed(trace[t]))
           => /\ res[t].content = GeneratedText
              /\ res[t].content # CustomFallback("v3", Request(t))
              /\ res[t].imageUrl = JsNull
              /\ res[t].imagePrompt
                   = Instruction(FirstRule(Request(t)), Request(t))
              /\ \A i \in 1..Len(trace[t]) :
                    trace[t][i].op = "postMessage"
                      => /\ trace[t][i].arg = GeneratedText
                         /\ ~HasImageBlock(trace[t][i].blocks)
              /\ (pc[t] = "done" /\ OnlyFailed(trace[t], "images.generate"))
                    => /\ Count(trace[t], "postMessage") = 1
                       /\ Count(trace[t], "writeFile") = 1
                       /\ Count(trace[t], "respond") = 1)
  /\ [][\A t \in Tasks :
          /\ (pc[t] = "m.image" /\ pc'[t] # pc[t]) => pc'[t] = "m.post"
          /\ (inp[t].kind = "machine" /\ variant = "v3"
                /\ ImageFailed(trace[t]) /\ SavedNow(t))
               => LET new == NewLog(PROMPTS_FILE)
                  IN /\ Len(new) >= 1
                     /\ Get(Last(new), "imageUrl") = JsNull
                     /\ Get(Last(new), "content") = GeneratedText
                     /\ Get(Last(new), "imagePrompt")
                          = Instruction(FirstRule(Request(t)), Request(t))]_vars

\* a request for a comparison was posted with the generated text after the
\* image generation failed, and logged with the comparison image prompt
C13_Witness ==
  /\ pc["t1"] = "done" /\ inp["t1"].kind = "machine" /\ variant = "v3"
  /\ Mentions(Request("t1"), "comparison")
  /\ ImageFailed(trace["t1"]) /\ OnlyFailed(trace["t1"], "images.generate")
  /\ Len(Log(PROMPTS_FILE)) = 1
  /\ Log(PROMPTS_FILE)[1].imageUrl = JsNull
  /\ Log(PROMPTS_FILE)[1].content = GeneratedText
  /\ Log(PROMPTS_FILE)[1].imagePrompt = Instruction(3, Request("t1"))

\* ------------------------------------------------------------------ C14 - C18
IsCommand(t) == inp[t].kind \in {"prompt", "machine"}
Indices(tr, op) == {i \in 1..Len(tr) : tr[i].op = op}
Before(tr, a, b) ==
  \A i \in Indices(tr, a) : \A j \in Indices(tr, b) : i < j

\* C14: in every invocation of either command handler the acknowledgment is
\* the first call and is made once: no log read, generation call, image
\* call, post-message call or response precedes it, and none is made unless
\* it succeeded; an invocation that has ended has acknowledged exactly once.
\* In the daily-prompt command the generation call precedes the post-message
\* call, which precedes the load and save of the log append; each is made at
\* most once, the post only after the generation and the append only after a
\* successful post.
C14_AckFirstThenPipeline ==
  \A t \in Tasks :
    IsCommand(t)
      => /\ Count(trace[t], "ack") <= 1
         /\ trace[t] # <<>> => trace[t][1].op = "ack"
         /\ Len(trace[t]) >= 2 => trace[t][1].ok
         /\ pc[t] \in {"done", "crashed"} => Count(trace[t], "ack") = 1
         /\ inp[t].kind = "prompt"
              => /\ Count(trace[t], "chat.completions") <= 1
                 /\ Count(trace[t], "postMessage") <= 1
                 /\ Count(trace[t], "writeFile") <= 1
                 /\ Before(trace[t], "chat.completions", "postMessage")
                 /\ Before(trace[t], "postMessage", "writeFile")
                 /\ Count(trace[t], "postMessage") = 1
                      => Count(trace[t], "chat.completions") = 1
                 /\ Count(trace[t], "writeFile") = 1
                      => /\ Count(trace[t], "postMessage") = 1
                         /\ EventsOf(trace[t], "postMessage")[1].ok
                         /\ trace[t][WriteAt(trace[t]) - 1].op = "readFile"
                         /\ trace[t][WriteAt(trace[t]) - 2].op = "postMessage"

\* a daily-prompt command of the context-building revision ran to its end
\* without a failure: ack, two loads, generation, post, load, save, respond
C14_Witness ==
  /\ pc["t1"] = "done" /\ inp["t1"].kind = "prompt" /\ variant = "v3"
  /\ AllOk(trace["t1"]) /\ Len(trace["t1"]) = 8
  /\ trace["t1"][1].op = "ack"
  /\ trace["t1"][4].op = "chat.completions"
  /\ trace["t1"][5].op = "postMessage"
  /\ trace["t1"][7].op = "writeFile"

PostFailed(tr) == \E i \in 1..Len(tr) : tr[i].op = "postMessage" /\ ~tr[i].ok
Responses(tr, text) ==
  Cardinality({i \in 1..Len(tr) : tr[i].op = "respond" /\ tr[i].arg = text})
PromptErrorText == <<"Error posting prompt. Please try again.">>

\* C15: a daily-prompt command whose post-message call failed ends having
\* responded to the invoker with 'Error posting prompt. Please try again.'.
C15_PostFailureAnswered ==
  \A t \in Tasks :
    (inp[t].kind = "prompt" /\ pc[t] = "done" /\ PostFailed(trace[t]))
      => Responses(trace[t], PromptErrorText) >= 1

\* C16: no exception escapes the message listener or a command handler,
\* whichever external calls fail.
C16_NoHandlerCrashes ==
  \A t \in Tasks : pc[t] # "crashed"

\* the texts that tell the user that a generation failed
FailureNotices == {"AI generation failed - try again!", "Image generation failed"}
Tells(text) == \E i \in 1..Len(text) : text[i] \in FailureNotices
BlocksOf(e) == IF "blocks" \in DOMAIN e THEN e.blocks ELSE <<>>

\* C17: after a failed text generation or image generation call, no message
\* the handler gets posted and no response it gets delivered holds a text
\* telling the user that generation failed, in its text or in its blocks.
C17_GenerationFailureNeverSurfaced ==
  \A t \in Tasks : \A i \in 1..Len(trace[t]) :
    ( /\ trace[t][i].op \in {"postMessage", "respond"}
      /\ trace[t][i].ok
      /\ LET before == SubSeq(trace[t], 1, i - 1)
         IN  GenFailed(before) \/ ImageFailed(before) )
    => /\ ~Tells(trace[t][i].arg)
       /\ \A b \in 1..Len(BlocksOf(trace[t][i])) :
             ~Tells(BlocksOf(trace[t][i])[b])

\* C18: in a custom-content command with a non-empty request, when the
\* post-message call has failed the handler neither loads nor saves the
\* prompts log (no record is appended, the file keeps its content), and it
\* ends having made exactly one generic failure response, as its last call.
C18_PostFailureNoRecord ==
  /\ [](\A t \in Tasks :
         (inp[t].kind = "machine" /\ PostFailed(trace[t]))
           => /\ ~IsEmptyRequest(Request(t))
              /\ Count(trace[t], "writeFile") = 0
              /\ \A i \in 1..Len(trace[t]) :
                    trace[t][i].op = "readFile" => trace[t][i].arg # <<PROMPTS_FILE>>
              /\ mem[t] = <<>>
              /\ pc[t] \in {"m.respondError", "done", "crashed"}
              /\ pc[t] \in {"done", "crashed"}
                   => /\ Responses(trace[t], SorryText) = 1
                      /\ Last(trace[t]).op = "respond"
                      /\ Last(trace[t]).arg = SorryText
                      /\ trace[t][Len(trace[t]) - 1].op = "postMessage")
  /\ [][\A t \in Tasks :
          (inp[t].kind = "machine" /\ PostFailed(trace'[t])
             /\ trace'[t] # trace[t])
            => files' = files]_vars

\* a text-only custom command whose post failed has answered with the
\* failure response, and the prompts log holds only the record it held
C18_Witness ==
  /\ pc["t1"] = "done" /\ inp["t1"].kind = "machine" /\ variant = "v2"
  /\ PostFailed(trace["t1"]) /\ OnlyFailed(trace["t1"], "postMessage")
  /\ Last(trace["t1"]).arg = SorryText /\ Last(trace["t1"]).ok
  /\ Log(PROMPTS_FILE) = <<ExistingPrompt>>

\* ------------------------------------------------------------------ C19, C20
Failed(tr, op) == \E i \in 1..Len(tr) : tr[i].op = op /\ ~tr[i].ok

\* C19: a listener invocation on a message with k >= 1 links makes its calls
\* in the order reaction, load, save, reply, each at most once (none is
\* retried).  When the reaction call fails the invocation ends there: no
\* record is pushed, nothing is saved and no reply is posted.  When the reply
\* fails the invocation ends and the records the save wrote stay in the log.
C19_ListenerOrderAndAbort ==
  /\ [](\A t \in Tasks :
         (inp[t].kind = "message" /\ Occurrences(inp[t].text) >= 1)
           => /\ \A op \in {"reactions.add", "readFile", "writeFile", "say"} :
                    Count(trace[t], op) <= 1
              /\ Before(trace[t], "reactions.add", "readFile")
              /\ Before(trace[t], "readFile", "writeFile")
              /\ Before(trace[t], "writeFile", "say")
              /\ trace[t] # <<>> => trace[t][1].op = "reactions.add"
              /\ Count(trace[t], "say") = 1 => Len(trace[t]) = 4
              /\ Failed(trace[t], "reactions.add")
                   => /\ pc[t] = "done"
                      /\ Len(trace[t]) = 1
                      /\ mem[t] = <<>>
              /\ (pc[t] = "done" /\ Failed(trace[t], "say")
                    /\ Wrote(t, POSTS_FILE))
                   => /\ Log(POSTS_FILE) = Reparsed(mem[t])
                      /\ Len(mem[t]) >= Occurrences(inp[t].text))
  /\ [][\A t \in Tasks :
          /\ (pc[t] = "reactions.add" /\ Failed(trace'[t], "reactions.add"))
               => files' = files
          /\ (pc[t] = "say" /\ pc'[t] # pc[t])
               => (files' = files /\ pc'[t] = "done")]_vars

\* a message with two links was recorded after an existing record, and its
\* reply failed: the three records are in the log
C19_Witness ==
  /\ pc["t1"] = "done" /\ inp["t1"].kind = "message"
  /\ Occurrences(inp["t1"].text) = 2
  /\ Failed(trace["t1"], "say") /\ OnlyFailed(trace["t1"], "say")
  /\ Len(Log(POSTS_FILE)) = 3
  /\ Log(POSTS_FILE)[3].url = NthUrl(inp["t1"].text, 2)

Min(a, b) == IF a <= b THEN a ELSE b
\* the log a read returned: a rejected read gives the empty log
LoadedLog(f, e) == IF e.ok THEN Log(f) ELSE <<>>
LineOf(record) == <<"- ">> \o Get(record, "content")
SectionLen(n, window) == IF n = 0 THEN 0 ELSE 1 + Min(window, n)

\* C20: in the revisions whose scheduled generator loads the logs, when the
\* generator has loaded n SharedPosts and m GeneratedPrompts, the context it
\* sends is the identity line, then (unless n = 0) a header and one line for
\* each of the last min(10, n) SharedPosts, then (unless m = 0) a header and
\* one line for each of the last min(5, m) GeneratedPrompts, each tail in
\* insertion order with its oldest record first; there is no other line, so
\* no older record has a line.
C20_ContextTail ==
  \A t \in Tasks :
    (inp[t].kind = "prompt" /\ variant # "v1" /\ JustGenerated(t))
      => LET ctx == Last(trace[t]).context
             posts == LoadedLog(POSTS_FILE, trace[t][2])
             prompts == LoadedLog(PROMPTS_FILE, trace[t][3])
             n == Len(posts)
             m == Len(prompts)
             kp == Min(10, n)
             kq == Min(5, m)
             base == 1 + SectionLen(n, 10)
         IN /\ Len(ctx) = 1 + SectionLen(n, 10) + SectionLen(m, 5)
            /\ ctx[1] = IdentityLine
            /\ n > 0 => /\ ctx[2] = PostsHeader
                        /\ \A k \in 1..kp :
                              ctx[2 + k] = LineOf(posts[n - kp + k])
            /\ m > 0 => /\ ctx[base + 1] = PromptsHeader
                        /\ \A k \in 1..kq :
                              ctx[base + 1 + k] = LineOf(prompts[m - kq + k])
            /\ n = 0 => \A i \in 1..Len(ctx) : ctx[i] # PostsHeader
            /\ m = 0 => \A i \in 1..Len(ctx) : ctx[i] # PromptsHeader
            /\ \A j \in 1..(m - kq) : \A i \in 1..Len(ctx) :
                  ctx[i] # LineOf(prompts[j])

\* the context was built from eleven shared posts and six prompts: seventeen
\* lines follow the identity line, the first prompt line being the second
\* prompt of the log
C20_Witness ==
  /\ inp["t1"].kind = "prompt" /\ variant = "v3" /\ JustGenerated("t1")
  /\ AllOk(trace["t1"])
  /\ Len(Log(POSTS_FILE)) = 11 /\ Len(Log(PROMPTS_FILE)) = 6
  /\ Len(Last(trace["t1"]).context) = 18
  /\ Last(trace["t1"]).context[14] = <<"- ", "prompt", "2">>

\* ------------------------------------------------------------------ C21 - C23
\* a record of the daily command: it has neither a request nor a type
IsDaily(record) ==
  Get(record, "type") = Undefined /\ Get(record, "request") = Undefined
Posted(tr, content) ==
  \E i \in 1..Len(tr) :
    tr[i].op = "postMessage" /\ tr[i].ok /\ tr[i].arg = content
Stepped(t) == trace'[t] # trace[t] /\ Len(trace'[t]) > Len(trace[t])

\* C21: every daily record in the prompts log was appended by a daily-prompt
\* invocation whose post-message call succeeded: its id is the platform
\* timestamp of that posted message and its content is the prompt that was
\* posted.  When the post-message call of an invocation fails, the
\* invocation neither loads nor saves the prompts log afterwards: no record
\* is appended.
C21_DailyRecordMatchesPost ==
  /\ [](\A i \in 1..Len(Log(PROMPTS_FILE)) :
         LET record == Log(PROMPTS_FILE)[i]
         IN IsDaily(record)
              => /\ Get(record, "id") # Undefined
                 /\ \E t \in Tasks :
                       /\ inp[t].kind = "prompt"
                       /\ Posted(trace[t], Get(record, "content"))
                       /\ res[t].ts = Get(record, "id")
                       /\ res[t].content = Get(record, "content"))
  /\ [](\A t \in Tasks :
         (inp[t].kind = "prompt" /\ PostFailed(trace[t]))
           => /\ Count(trace[t], "writeFile") = 0
              /\ mem[t] = <<>>
              /\ res[t].ts = Undefined
              /\ pc[t] \notin {"p.loadLog", "p.save"})
  /\ [][\A t \in Tasks :
          (inp[t].kind = "prompt" /\ PostFailed(trace'[t]) /\ Stepped(t))
            => files' = files]_vars

\* one daily command posted and logged its prompt, another one's post
\* failed: the log holds the one record, with the posted message's timestamp
C21_Witness ==
  /\ pc["t1"] = "done" /\ inp["t1"].kind = "prompt" /\ AllOk(trace["t1"])
  /\ pc["t2"] = "done" /\ inp["t2"].kind = "prompt"
  /\ PostFailed(trace["t2"])
  /\ Len(Log(PROMPTS_FILE)) = 1
  /\ Log(PROMPTS_FILE)[1].id = res["t1"].ts
  /\ Posted(trace["t1"], Log(PROMPTS_FILE)[1].content)

\* C22: no two records of the prompts log have the same id.
C22_UniqueIds ==
  \A i \in 1..Len(Log(PROMPTS_FILE)) : \A j \in 1..Len(Log(PROMPTS_FILE)) :
    i # j => Get(Log(PROMPTS_FILE)[i], "id") # Get(Log(PROMPTS_FILE)[j], "id")

\* the steps inside generateContentPrompt, generateCustomContent and the
\* first revision's inline generation
GeneratorSteps ==
  {"p.loadPosts", "p.loadPrompts", "p.generate",
   "m.loadPosts", "m.generate", "m.generateInline", "m.image"}

\* C23: a step of the message listener leaves the prompts log as it is, a
\* step of either command handler leaves the posts log as it is, and a step
\* inside a generator function leaves both logs as they are.  Hence when a
\* listener and a command handler run concurrently and all their calls
\* succeed, under every interleaving the posts log ends holding the
\* listener's records and the prompts log the command's record.
C23_DisjointWriteSets ==
  /\ [][\A t \in Tasks :
          Stepped(t)
            => /\ inp[t].kind = "message"
                    => files'[PROMPTS_FILE] = files[PROMPTS_FILE]
               /\ IsCommand(t) => files'[POSTS_FILE] = files[POSTS_FILE]
               /\ pc[t] \in GeneratorSteps => files' = files]_vars
  /\ [](\A a \in Tasks : \A b \in Tasks \ {a} :
         ( /\ inp[a].kind = "message" /\ IsCommand(b)
           /\ pc[a] = "done" /\ pc[b] = "done"
           /\ AllOk(trace[a]) /\ AllOk(trace[b])
           /\ Wrote(a, POSTS_FILE) /\ Wrote(b, PROMPTS_FILE) )
         => /\ Log(POSTS_FILE) = Reparsed(mem[a])
            /\ Len(Log(POSTS_FILE)) = Occurrences(inp[a].text)
            /\ Log(PROMPTS_FILE) = Reparsed(mem[b])
            /\ Len(Log(PROMPTS_FILE)) = 1)
  /\ [](\A t \in Tasks : \A i \in 1..Len(trace[t]) :
         trace[t][i].op = "writeFile"
           => trace[t][i].arg
                = (IF inp[t].kind = "message" THEN <<POSTS_FILE>>
                   ELSE <<PROMPTS_FILE>>))

\* a listener on a message with two links and a custom command ran
\* concurrently without a failure: both logs hold what each appended
C23_Witness ==
  /\ pc["t1"] = "done" /\ inp["t1"].kind = "message"
  /\ pc["t2"] = "done" /\ inp["t2"].kind = "machine"
  /\ AllOk(trace["t1"]) /\ AllOk(trace["t2"])
  /\ Wrote("t1", POSTS_FILE) /\ Wrote("t2", PROMPTS_FILE)
  /\ Len(Log(POSTS_FILE)) = 2
  /\ Len(Log(PROMPTS_FILE)) = 1
  /\ Log(PROMPTS_FILE)[1].request = Request("t2")

====
